---- MODULE Spec2Model ----
(***************************************************************************)
(* The token blacklist of byow-user-service (package jwt):                 *)
(* BlacklistService keeps a per-process cache (jti -> expiresAt) in front  *)
(* of the MongoDB collection token_blacklist.  Request goroutines call      *)
(* BlacklistToken and IsTokenBlacklisted, one goroutine runs               *)
(* loadCacheFromDB after construction, and a ticker goroutine runs         *)
(* CleanupExpiredTokens.  A step of the model is one store operation or    *)
(* one critical section of the cache mutex; SpecLock and SpecLockFair take *)
(* the calls of the mutex as steps of their own.                           *)
(***************************************************************************)
EXTENDS Integers, FiniteSets

\* ---------------------------------------------------------------- bounds
\* Times are 0..MaxTime, counted in units of 1/MsGran millisecond.
MaxTime == 2
MsGran == 1
\* Calls of BlacklistToken and IsTokenBlacklisted in one behaviour.
MaxCalls == 2
\* Documents written by other instances of the service in one behaviour.
MaxRemote == 1
\* Calls in one behaviour of SpecDisjoint.
DisjointCalls == 4
\* Ticks of the clock in one second of time.Now().Unix().
TicksPerSecond == 2
\* Calls in one behaviour of SpecLockFair.
FairCalls == 1

Times == 0..MaxTime
Jtis == {"j1", "j2"}
\* The expiresAt arguments tried: j1 expires at any time, j2 outlives the run.
Exps(j) == IF j = "j1" THEN Times ELSE {MaxTime}
Tasks == {"t1", "t2"}
NoEntry == -1

VARIABLES
    now,        \* time.Now()
    jtiUnique,  \* the jti_unique index exists
    store,      \* documents of token_blacklist: [jti, exp]
    cache,      \* bs.cache: jti -> expiresAt, NoEntry when the key is absent
    pc,         \* position of each request goroutine
    jti,        \* its jti argument
    expiresAt,  \* its expiresAt argument or local
    ldpc,       \* position of the loadCacheFromDB goroutine
    ldbuf,      \* the documents its cursor holds
    calls,      \* calls of BlacklistToken and IsTokenBlacklisted begun so far
    remotes,    \* documents inserted by other instances so far
    \* history
    seeded,     \* jtis of the documents the collection held at construction
    held,       \* per jti, latest expiresAt of the revocations ever stored
    acked,      \* per jti, latest expiresAt of a BlacklistToken that returned nil
    must,       \* per goroutine, acked[jti] when its IsTokenBlacklisted began
    ev,         \* what the last step did, NoEv when nothing to report
    \* the protected routes
    req,        \* per goroutine, the request JWTMiddleware is handling
    \* the cache mutex, where its calls are steps of their own
    mutex,      \* bs.mutex: w, the goroutine that holds it for writing or
                \* "none"; r, the goroutines that hold it for reading
    inside,     \* goroutines whose Lock or RLock call has returned and whose
                \* Unlock or RUnlock has not been called yet
    worker      \* position of the goroutine of StartCleanupWorker

vars == <<now, jtiUnique, store, cache, pc, jti, expiresAt, ldpc, ldbuf,
          calls, remotes, seeded, held, acked, must, ev, req, mutex, inside,
          worker>>

\* What a step reports.  op: the operation that returned ("begin", "stale",
\* "FindOne": a call in progress); t: its goroutine; jti, exp: its argument
\* and the expiresAt it used; res: its return value; io: FindOne queries it
\* issued; dberr: the store failed it; must: see above; n: cache entries
\* removed or documents loaded; after: what this call immediately followed.
Event(op, t, j, e, r, q, d, m, n, a) ==
    [op |-> op, t |-> t, jti |-> j, exp |-> e, res |-> r, io |-> q,
     dberr |-> d, must |-> m, n |-> n, after |-> a]

NoEv == Event("none", "t1", "j1", NoEntry, "none", 0, FALSE, NoEntry, 0, "none")

\* A request at JWTMiddleware.  st: where the middleware is ("idle": no
\* request, "check": inside IsTokenBlacklisted, "abort": c.Abort() was called,
\* "next": c.Next() was called); tok: what the token cookie holds ("none": no
\* cookie, "bad": jwt.Parse fails or the token is not valid, "ok": verified);
\* tjti: the string jti claim of the token, "none" without one; svc: a
\* BlacklistService is attached; checked: IsTokenBlacklisted was called.
Request(st, tok, tjti, svc, checked) ==
    [st |-> st, tok |-> tok, tjti |-> tjti, svc |-> svc, checked |-> checked]

NoRequest == Request("idle", "none", "none", FALSE, FALSE)

\* The step is none of JWTMiddleware or of a handler behind it.
Direct == UNCHANGED req

\* sync.RWMutex, nobody holding it.
Unlocked == [w |-> "none", r |-> {}]

\* The step takes no lock or is a whole critical section, the mutex free
\* before and after it; the cleanup worker is not looked at.
Atomic == UNCHANGED <<mutex, inside, worker>>

\* ------------------------------------------------------------ the store
\* A time.Time written to BSON keeps milliseconds only.
StoreTime(t) == t - (t % MsGran)

Max(a, b) == IF a >= b THEN a ELSE b

\* InsertOne of a document with this jti violates jti_unique.
Duplicate(j) == jtiUnique /\ \E r \in store : r.jti = j

Doc(j, e) == [jti |-> j, exp |-> StoreTime(e)]

\* Mutant: the filter forgets the jti.
FindMatchesAnyJti(j) == {r \in store : r.exp > StoreTime(now)}

\* Documents matched by {"jti": j, "expires_at": {"$gt": time.Now()}}.
FindMatches(j) == {r \in store : r.jti = j /\ r.exp > StoreTime(now)}

\* Documents matched by {"expires_at": {"$gt": time.Now()}}.
FindNonExpired == {r \in store : r.exp > StoreTime(now)}

\* ------------------------------------------------------------ the cache
\* Mutant: expired only after expiresAt, not at it.
IsExpiredAfter(e) == now > e

\* !time.Now().Before(expiresAt)
IsExpired(e) == ~ (now < e)

\* Mutant: the sweep is one tick late.
SweepRemovesLate(e) == now > e + 1

\* now.After(expiresAt)
SweepRemoves(e) == now > e

\* Mutant: the sweep empties the map.
SweepAll(c) == [k \in Jtis |-> NoEntry]

Sweep(c) ==
    [k \in Jtis |-> IF c[k] # NoEntry /\ SweepRemoves(c[k]) THEN NoEntry ELSE c[k]]

\* Nothing has happened yet: a document written now is one the instance was
\* constructed over.
AtConstruction ==
    /\ calls = 0
    /\ ldpc = "find"
    /\ now = 0
    /\ \A k \in Jtis : cache[k] = NoEntry

Init ==
    /\ now = 0
    /\ jtiUnique \in BOOLEAN
    /\ store = {}
    /\ seeded = {}
    /\ held = [k \in Jtis |-> NoEntry]
    /\ cache = [k \in Jtis |-> NoEntry]
    /\ pc = [t \in Tasks |-> "idle"]
    /\ jti = [t \in Tasks |-> "j1"]
    /\ expiresAt = [t \in Tasks |-> NoEntry]
    /\ must = [t \in Tasks |-> NoEntry]
    /\ acked = [k \in Jtis |-> NoEntry]
    /\ ldpc = "find"
    /\ ldbuf = {}
    /\ calls = 0
    /\ remotes = 0
    /\ ev = NoEv
    /\ req = [t \in Tasks |-> NoRequest]
    /\ mutex = Unlocked
    /\ inside = {}
    /\ worker = "idle"

Ready(t) == pc[t] = "idle" /\ calls < MaxCalls

\* What a call of IsTokenBlacklisted(j) beginning now immediately follows.
Follows(j) ==
    IF ev.op = "BlacklistToken" /\ ev.res = "nil" /\ ev.jti = j
       THEN IF now < ev.exp THEN "ack" ELSE "ackpast"
    ELSE IF ev.op = "IsTokenBlacklisted" /\ ev.res = "true" /\ ev.io = 1
            /\ ev.jti = j /\ now < ev.exp
       THEN "fill"
    ELSE IF ev.op = "loadCacheFromDB" /\ ev.res = "all"
            /\ (\E r \in ldbuf : r.jti = j)
            /\ (\A r \in ldbuf : r.jti = j => now < r.exp)
       THEN "load"
    ELSE IF ev.op = "Logout" /\ ev.res = "200" /\ ev.jti = j
       THEN "logout"
    ELSE "none"

\* The same, handed on through the steps of the call of goroutine t.
Chain(t) ==
    IF ev.t = t /\ ev.op \in {"begin", "stale", "FindOne"} THEN ev.after ELSE "none"

\* Goroutine t begins a call with arguments j, e and moves to l.
Begin(t, l, j, e, m) ==
    /\ pc' = [pc EXCEPT ![t] = l]
    /\ jti' = [jti EXCEPT ![t] = j]
    /\ expiresAt' = [expiresAt EXCEPT ![t] = e]
    /\ must' = [must EXCEPT ![t] = m]
    /\ calls' = calls + 1

\* Goroutine t returns: its locals go out of scope.
Return(t) ==
    /\ pc' = [pc EXCEPT ![t] = "idle"]
    /\ jti' = [jti EXCEPT ![t] = "j1"]
    /\ expiresAt' = [expiresAt EXCEPT ![t] = NoEntry]
    /\ must' = [must EXCEPT ![t] = NoEntry]

\* ------------------------------------------------------- BlacklistToken
\* InsertOne succeeded.
BlacklistTokenInsert(t, j, e) ==
    /\ Ready(t)
    /\ ~ Duplicate(j)
    /\ store' = store \cup {Doc(j, e)}
    /\ held' = [held EXCEPT ![j] = Max(@, e)]
    /\ Begin(t, "bt_cache", j, e, NoEntry)
    /\ ev' = NoEv
    /\ UNCHANGED <<now, jtiUnique, cache, ldpc, ldbuf, remotes, seeded,
                   acked>>

\* Mutant: the cache is written before InsertOne, so a failed insert leaves
\* the entry behind.
BlacklistTokenCacheFirst(t, j, e, dberr) ==
    /\ Ready(t)
    /\ dberr \/ Duplicate(j)
    /\ calls' = calls + 1
    /\ cache' = [cache EXCEPT ![j] = e]
    /\ ev' = Event("BlacklistToken", t, j, e, "err", 0, dberr, NoEntry, 0, "none")
    /\ UNCHANGED <<now, jtiUnique, store, pc, jti, expiresAt,
                   ldpc, ldbuf, remotes, seeded, held, acked, must>>

\* Mutant: an expiresAt in the past is rejected as a caller error.
BlacklistTokenRejectsPast(t, j, e, dberr) ==
    /\ Ready(t)
    /\ dberr \/ Duplicate(j) \/ e < now
    /\ calls' = calls + 1
    /\ ev' = Event("BlacklistToken", t, j, e, "err", 0, dberr, NoEntry, 0, "none")
    /\ UNCHANGED <<now, jtiUnique, store, cache, pc, jti, expiresAt,
                   ldpc, ldbuf, remotes, seeded, held, acked, must>>

\* InsertOne failed, the store unreachable or timing out (dberr) or the jti
\* a duplicate: the error is returned.
BlacklistTokenInsertFail(t, j, e, dberr) ==
    /\ Ready(t)
    /\ dberr \/ Duplicate(j)
    /\ calls' = calls + 1
    /\ ev' = Event("BlacklistToken", t, j, e, "err", 0, dberr, NoEntry, 0, "none")
    /\ UNCHANGED <<now, jtiUnique, store, cache, pc, jti, expiresAt,
                   ldpc, ldbuf, remotes, seeded, held, acked, must>>

\* Mutant: an entry is only ever replaced by a later expiresAt.
BlacklistTokenCacheKeepsLater(t) ==
    /\ pc[t] = "bt_cache"
    /\ cache' = [cache EXCEPT ![jti[t]] = Max(@, expiresAt[t])]
    /\ acked' = [acked EXCEPT ![jti[t]] = Max(@, expiresAt[t])]
    /\ Return(t)
    /\ ev' = Event("BlacklistToken", t, jti[t], expiresAt[t], "nil", 0, FALSE,
                   NoEntry, 0, "none")
    /\ UNCHANGED <<now, jtiUnique, store, ldpc, ldbuf, calls, remotes,
                   seeded, held>>

\* Mutant: the map is rebuilt from the new entry alone, so the entries other
\* goroutines wrote are lost.
BlacklistTokenCacheLost(t) ==
    /\ pc[t] = "bt_cache"
    /\ cache' = [k \in Jtis |-> IF k = jti[t] THEN expiresAt[t] ELSE NoEntry]
    /\ acked' = [acked EXCEPT ![jti[t]] = Max(@, expiresAt[t])]
    /\ Return(t)
    /\ ev' = Event("BlacklistToken", t, jti[t], expiresAt[t], "nil", 0, FALSE,
                   NoEntry, 0, "none")
    /\ UNCHANGED <<now, jtiUnique, store, ldpc, ldbuf, calls, remotes,
                   seeded, held>>

\* Mutant: nil is returned without the cache write.
BlacklistTokenNoCacheWrite(t) ==
    /\ pc[t] = "bt_cache"
    /\ acked' = [acked EXCEPT ![jti[t]] = Max(@, expiresAt[t])]
    /\ Return(t)
    /\ ev' = Event("BlacklistToken", t, jti[t], expiresAt[t], "nil", 0, FALSE,
                   NoEntry, 0, "none")
    /\ UNCHANGED <<now, jtiUnique, store, cache, ldpc, ldbuf, calls, remotes,
                   seeded, held>>

\* bs.cache[jti] = expiresAt under the write lock, then return nil.
BlacklistTokenCache(t) ==
    /\ pc[t] = "bt_cache"
    /\ cache' = [cache EXCEPT ![jti[t]] = expiresAt[t]]
    /\ acked' = [acked EXCEPT ![jti[t]] = Max(@, expiresAt[t])]
    /\ Return(t)
    /\ ev' = Event("BlacklistToken", t, jti[t], expiresAt[t], "nil", 0, FALSE,
                   NoEntry, 0, "none")
    /\ UNCHANGED <<now, jtiUnique, store, ldpc, ldbuf, calls, remotes,
                   seeded, held>>

\* --------------------------------------------------- IsTokenBlacklisted
\* expiresAt, exists := bs.cache[jti] under the read lock.
IsTokenBlacklistedRead(t, j) ==
    /\ Ready(t)
    /\ Begin(t, IF cache[j] # NoEntry THEN "itb_check" ELSE "itb_find",
             j, cache[j], acked[j])
    /\ ev' = Event("begin", t, j, NoEntry, "none", 0, FALSE, NoEntry, 0, Follows(j))
    /\ UNCHANGED <<now, jtiUnique, store, cache, ldpc, ldbuf, remotes,
                   seeded, held, acked>>

\* exists and time.Now().Before(expiresAt): return true.
IsTokenBlacklistedHit(t) ==
    /\ pc[t] = "itb_check"
    /\ ~ IsExpired(expiresAt[t])
    /\ Return(t)
    /\ ev' = Event("IsTokenBlacklisted", t, jti[t], expiresAt[t], "true", 0,
                   FALSE, must[t], 0, Chain(t))
    /\ UNCHANGED <<now, jtiUnique, store, cache, ldpc, ldbuf, calls,
                   remotes, seeded, held, acked>>

\* exists but expired: go on to delete the entry.
IsTokenBlacklistedStale(t) ==
    /\ pc[t] = "itb_check"
    /\ IsExpired(expiresAt[t])
    /\ pc' = [pc EXCEPT ![t] = "itb_delete"]
    /\ ev' = Event("stale", t, jti[t], NoEntry, "none", 0, FALSE, NoEntry, 0,
                   Chain(t))
    /\ UNCHANGED <<now, jtiUnique, store, cache, jti, expiresAt, ldpc,
                   ldbuf, calls, remotes, seeded, held, acked, must>>

\* Mutant: the expired entry is deleted from the collection as well.
IsTokenBlacklistedDeleteBoth(t) ==
    /\ pc[t] = "itb_delete"
    /\ cache' = [cache EXCEPT ![jti[t]] = NoEntry]
    /\ store' = {r \in store : r.jti # jti[t]}
    /\ Return(t)
    /\ ev' = Event("IsTokenBlacklisted", t, jti[t], expiresAt[t], "false", 0,
                   FALSE, must[t], 0, Chain(t))
    /\ UNCHANGED <<now, jtiUnique, ldpc, ldbuf, calls, remotes,
                   seeded, held, acked>>

\* delete(bs.cache, jti) under the write lock, then return false.
IsTokenBlacklistedDelete(t) ==
    /\ pc[t] = "itb_delete"
    /\ cache' = [cache EXCEPT ![jti[t]] = NoEntry]
    /\ Return(t)
    /\ ev' = Event("IsTokenBlacklisted", t, jti[t], expiresAt[t], "false", 0,
                   FALSE, must[t], 0, Chain(t))
    /\ UNCHANGED <<now, jtiUnique, store, ldpc, ldbuf, calls, remotes,
                   seeded, held, acked>>

\* FindOne decoded a document.
IsTokenBlacklistedFind(t) ==
    /\ pc[t] = "itb_find"
    /\ \E r \in FindMatches(jti[t]) :
          /\ expiresAt' = [expiresAt EXCEPT ![t] = r.exp]
          /\ ev' = Event("FindOne", t, jti[t], r.exp, "found", 1, FALSE,
                         NoEntry, 0, Chain(t))
    /\ pc' = [pc EXCEPT ![t] = "itb_fill"]
    /\ UNCHANGED <<now, jtiUnique, store, cache, jti, ldpc, ldbuf,
                   calls, remotes, seeded, held, acked, must>>

\* Mutant: a jti this instance never blacklisted is answered false, whatever
\* the collection holds.
IsTokenBlacklistedLocalOnly(t, dberr) ==
    /\ pc[t] = "itb_find"
    /\ dberr \/ FindMatches(jti[t]) = {} \/ acked[jti[t]] = NoEntry
    /\ Return(t)
    /\ ev' = Event("IsTokenBlacklisted", t, jti[t], NoEntry, "false", 1,
                   dberr, must[t], 0, Chain(t))
    /\ UNCHANGED <<now, jtiUnique, store, cache, ldpc, ldbuf, calls,
                   remotes, seeded, held, acked>>

\* Mutant: a failed query is answered "blacklisted" (fail closed).
IsTokenBlacklistedFailClosed(t, dberr) ==
    /\ pc[t] = "itb_find"
    /\ dberr \/ FindMatches(jti[t]) = {}
    /\ Return(t)
    /\ ev' = Event("IsTokenBlacklisted", t, jti[t], NoEntry,
                   IF dberr THEN "true" ELSE "false", 1, dberr, must[t], 0,
                   Chain(t))
    /\ UNCHANGED <<now, jtiUnique, store, cache, ldpc, ldbuf, calls,
                   remotes, seeded, held, acked>>

\* FindOne returned ErrNoDocuments, or another error with the store unreachable
\* or timing out (dberr): return false.
IsTokenBlacklistedFindFail(t, dberr) ==
    /\ pc[t] = "itb_find"
    /\ dberr \/ FindMatches(jti[t]) = {}
    /\ Return(t)
    /\ ev' = Event("IsTokenBlacklisted", t, jti[t], NoEntry, "false", 1,
                   dberr, must[t], 0, Chain(t))
    /\ UNCHANGED <<now, jtiUnique, store, cache, ldpc, ldbuf, calls,
                   remotes, seeded, held, acked>>

\* Mutant: true is returned without populating the cache.
IsTokenBlacklistedNoFill(t) ==
    /\ pc[t] = "itb_fill"
    /\ Return(t)
    /\ ev' = Event("IsTokenBlacklisted", t, jti[t], expiresAt[t], "true", 1,
                   FALSE, must[t], 0, Chain(t))
    /\ UNCHANGED <<now, jtiUnique, store, cache, ldpc, ldbuf, calls, remotes,
                   seeded, held, acked>>

\* bs.cache[jti] = blacklistEntry.ExpiresAt under the write lock, return true.
IsTokenBlacklistedFill(t) ==
    /\ pc[t] = "itb_fill"
    /\ cache' = [cache EXCEPT ![jti[t]] = expiresAt[t]]
    /\ Return(t)
    /\ ev' = Event("IsTokenBlacklisted", t, jti[t], expiresAt[t], "true", 1,
                   FALSE, must[t], 0, Chain(t))
    /\ UNCHANGED <<now, jtiUnique, store, ldpc, ldbuf, calls, remotes,
                   seeded, held, acked>>

\* ------------------------------------------------- CleanupExpiredTokens
CleanupExpiredTokens ==
    /\ cache' = Sweep(cache)
    /\ ev' = Event("CleanupExpiredTokens", "t1", "j1", NoEntry, "none", 0,
                   FALSE, NoEntry,
                   Cardinality({k \in Jtis : cache[k] # Sweep(cache)[k]}),
                   IF ev.op # "CleanupExpiredTokens" THEN "none"
                   ELSE IF ev.n > 0 THEN "sweep" ELSE "sweep0")
    /\ UNCHANGED <<now, jtiUnique, store, pc, jti, expiresAt, ldpc,
                   ldbuf, calls, remotes, seeded, held, acked, must>>

\* ------------------------------------------------------ loadCacheFromDB
\* collection.Find returned a cursor over the non-expired documents.
LoadFind ==
    /\ ldpc = "find"
    /\ ldbuf' = FindNonExpired
    /\ ldpc' = "fill"
    /\ ev' = NoEv
    /\ UNCHANGED <<now, jtiUnique, store, cache, pc, jti, expiresAt,
                   calls, remotes, seeded, held, acked, must>>

\* Mutant: a failed load starts the instance over with an empty cache.
LoadFindFailClears ==
    /\ ldpc = "find"
    /\ ldpc' = "failed"
    /\ cache' = [k \in Jtis |-> NoEntry]
    /\ ev' = Event("loadCacheFromDB", "t1", "j1", NoEntry, "err", 0, TRUE,
                   NoEntry, 0, "none")
    /\ UNCHANGED <<now, jtiUnique, store, pc, jti, expiresAt,
                   ldbuf, calls, remotes, seeded, held, acked, must>>

\* collection.Find failed: logged, the cache stays as it is.
LoadFindFail ==
    /\ ldpc = "find"
    /\ ldpc' = "failed"
    /\ ev' = Event("loadCacheFromDB", "t1", "j1", NoEntry, "err", 0, TRUE,
                   NoEntry, 0, "none")
    /\ UNCHANGED <<now, jtiUnique, store, cache, pc, jti, expiresAt,
                   ldbuf, calls, remotes, seeded, held, acked, must>>

\* Mutant: the cursor loop stores its first document only.
LoadedFirstOnly(got) ==
    {c \in [Jtis -> Times \cup {NoEntry}] :
        \/ got = {} /\ c = cache
        \/ \E r \in got : c = [cache EXCEPT ![r.jti] = r.exp]}

\* The cache after the cursor loop has stored the documents got: a later
\* document of the same jti overwrites an earlier one, in cursor order.
Loaded(got) ==
    {c \in [Jtis -> Times \cup {NoEntry}] :
        \A k \in Jtis :
            IF \E r \in got : r.jti = k
               THEN \E r \in got : r.jti = k /\ c[k] = r.exp
               ELSE c[k] = cache[k]}

\* The cursor loop under the write lock.  got: the documents cursor.Next and
\* Decode delivered before the loop ended, all of them unless the store failed.
LoadFill ==
    /\ ldpc = "fill"
    /\ \E got \in SUBSET ldbuf :
          /\ cache' \in Loaded(got)
          /\ ev' = Event("loadCacheFromDB", "t1", "j1", NoEntry,
                         IF got = ldbuf THEN "all" ELSE "part", 0, got # ldbuf,
                         NoEntry, Cardinality(got), "none")
    /\ ldpc' = "done"
    /\ UNCHANGED <<now, jtiUnique, store, pc, jti, expiresAt, ldbuf,
                   calls, remotes, seeded, held, acked, must>>

\* ------------------------------------------------------ the environment
Tick ==
    /\ now < MaxTime
    /\ now' = now + 1
    /\ ev' = NoEv
    /\ UNCHANGED <<jtiUnique, store, cache, pc, jti, expiresAt, ldpc,
                   ldbuf, calls, remotes, seeded, held, acked, must>>

\* The expires_at_ttl index removes a document whose expires_at has passed.
TtlPurge ==
    /\ \E r \in store :
          /\ r.exp < now
          /\ store' = store \ {r}
    /\ ev' = NoEv
    /\ UNCHANGED <<now, jtiUnique, cache, pc, jti, expiresAt, ldpc,
                   ldbuf, calls, remotes, seeded, held, acked, must>>

\* Another instance of the service, sharing the collection, blacklists a token.
RemoteInsert(j, e) ==
    /\ remotes < MaxRemote
    /\ ~ Duplicate(j)
    /\ store' = store \cup {Doc(j, e)}
    /\ held' = [held EXCEPT ![j] = Max(@, e)]
    /\ seeded' = IF AtConstruction THEN seeded \cup {j} ELSE seeded
    /\ remotes' = remotes + 1
    /\ ev' = NoEv
    /\ UNCHANGED <<now, jtiUnique, cache, pc, jti, expiresAt, ldpc,
                   ldbuf, calls, acked, must>>

Next ==
    \/ \E t \in Tasks, j \in Jtis : \E e \in Exps(j) :
          BlacklistTokenInsert(t, j, e) /\ Direct /\ Atomic
    \/ \E t \in Tasks, j \in Jtis, d \in BOOLEAN : \E e \in Exps(j) :
          BlacklistTokenInsertFail(t, j, e, d) /\ Direct /\ Atomic
    \/ \E t \in Tasks : BlacklistTokenCache(t) /\ Direct /\ Atomic
    \/ \E t \in Tasks, j \in Jtis :
          IsTokenBlacklistedRead(t, j) /\ Direct /\ Atomic
    \/ \E t \in Tasks : IsTokenBlacklistedHit(t) /\ Direct /\ Atomic
    \/ \E t \in Tasks : IsTokenBlacklistedStale(t) /\ Direct /\ Atomic
    \/ \E t \in Tasks : IsTokenBlacklistedDelete(t) /\ Direct /\ Atomic
    \/ \E t \in Tasks : IsTokenBlacklistedFind(t) /\ Direct /\ Atomic
    \/ \E t \in Tasks, d \in BOOLEAN :
          IsTokenBlacklistedFindFail(t, d) /\ Direct /\ Atomic
    \/ \E t \in Tasks : IsTokenBlacklistedFill(t) /\ Direct /\ Atomic
    \/ CleanupExpiredTokens /\ Direct /\ Atomic
    \/ LoadFind /\ Direct /\ Atomic
    \/ LoadFindFail /\ Direct /\ Atomic
    \/ LoadFill /\ Direct /\ Atomic
    \/ Tick /\ Direct /\ Atomic
    \/ TtlPurge /\ Direct /\ Atomic
    \/ \E j \in Jtis : \E e \in Exps(j) : RemoteInsert(j, e) /\ Direct /\ Atomic

Spec == Init /\ [][Next]_vars

\* ------------------------------------------- goroutines on disjoint jtis
\* Each goroutine works on a jti of its own that no one blacklisted before
\* (TestBlacklistService_ConcurrentCacheAccess: "concurrent-jti-<id>-<j>"),
\* while loadCacheFromDB, the cleanup worker and the TTL index run as ever.
Own == [t \in Tasks |-> IF t = "t1" THEN "j1" ELSE "j2"]

InitDisjoint ==
    /\ now = 0
    /\ jtiUnique \in BOOLEAN
    /\ store = {}
    /\ seeded = {}
    /\ held = [k \in Jtis |-> NoEntry]
    /\ cache = [k \in Jtis |-> NoEntry]
    /\ pc = [t \in Tasks |-> "idle"]
    /\ jti = [t \in Tasks |-> "j1"]
    /\ expiresAt = [t \in Tasks |-> NoEntry]
    /\ must = [t \in Tasks |-> NoEntry]
    /\ acked = [k \in Jtis |-> NoEntry]
    /\ ldpc = "find"
    /\ ldbuf = {}
    /\ calls = MaxCalls - DisjointCalls   \* leaves DisjointCalls calls to make
    /\ remotes = 0
    /\ ev = NoEv
    /\ req = [t \in Tasks |-> NoRequest]
    /\ mutex = Unlocked
    /\ inside = {}
    /\ worker = "idle"

NextDisjoint ==
    \/ \E t \in Tasks : \E e \in Exps(Own[t]) :
          held[Own[t]] = NoEntry /\ BlacklistTokenInsert(t, Own[t], e)
             /\ Direct /\ Atomic
    \/ \E t \in Tasks, d \in BOOLEAN : \E e \in Exps(Own[t]) :
          BlacklistTokenInsertFail(t, Own[t], e, d) /\ Direct /\ Atomic
    \/ \E t \in Tasks : BlacklistTokenCache(t) /\ Direct /\ Atomic
    \/ \E t \in Tasks : IsTokenBlacklistedRead(t, Own[t]) /\ Direct /\ Atomic
    \/ \E t \in Tasks : IsTokenBlacklistedHit(t) /\ Direct /\ Atomic
    \/ \E t \in Tasks : IsTokenBlacklistedStale(t) /\ Direct /\ Atomic
    \/ \E t \in Tasks : IsTokenBlacklistedDelete(t) /\ Direct /\ Atomic
    \/ \E t \in Tasks, d \in BOOLEAN :
          IsTokenBlacklistedFindFail(t, d) /\ Direct /\ Atomic
    \/ CleanupExpiredTokens /\ Direct /\ Atomic
    \/ LoadFind /\ Direct /\ Atomic
    \/ LoadFindFail /\ Direct /\ Atomic
    \/ LoadFill /\ Direct /\ Atomic
    \/ Tick /\ Direct /\ Atomic
    \/ TtlPurge /\ Direct /\ Atomic

\* Why NextDisjoint has no step for a FindOne that decodes a document: a
\* goroutine misses the cache for its own jti only while the collection holds
\* no live document of it.
DisjointFindOneIsEmpty ==
    \A t \in Tasks : pc[t] = "itb_find" => FindMatches(jti[t]) = {}

SpecDisjoint == InitDisjoint /\ [][NextDisjoint]_vars

\* ================================================================ claims
IsRet == ev.op = "IsTokenBlacklisted"
BtRet == ev.op = "BlacklistToken"

\* C1 (as claimed): an IsTokenBlacklisted(jti) that began after a
\* BlacklistToken(jti, e) returned nil, and that returns before e, returns true.
C1_AckedIsVisible == IsRet /\ now < ev.must => ev.res = "true"

\* C2: the IsTokenBlacklisted(jti) that immediately follows a BlacklistToken(jti,
\* e) which returned nil, e still in the future, returns true from the cache,
\* without a FindOne query.
C2_HitAfterAck == IsRet /\ ev.after = "ack" => ev.res = "true" /\ ev.io = 0

C2_Witness == IsRet /\ ev.after = "ack" /\ ev.res = "true"

\* C3: BlacklistToken returns nil only once InsertOne has stored its document
\* (which stays until its expiry lets the TTL index remove it), and a
\* BlacklistToken that returns the error of InsertOne leaves the cache as it was.
C3_DurableBeforeAck ==
    /\ [](BtRet /\ ev.res = "nil" =>
            Doc(ev.jti, ev.exp) \in store \/ StoreTime(ev.exp) < now)
    /\ [][ev'.op = "BlacklistToken" /\ ev'.res = "err" =>
            cache' = cache /\ store' = store]_vars

C3_Witness ==
    /\ BtRet /\ ev.res = "err" /\ ev.dberr
    /\ \E k \in Jtis : cache[k] # NoEntry

\* C4: IsTokenBlacklisted(jti) returns false for a jti no revocation was ever
\* stored for, whatever happened to the other jtis.
C4_NeverRevokedIsFalse == IsRet /\ held[ev.jti] = NoEntry => ev.res = "false"

C4_Witness ==
    /\ IsRet /\ held[ev.jti] = NoEntry /\ ev.res = "false"
    /\ \E k \in Jtis : held[k] # NoEntry /\ cache[k] # NoEntry

\* C5: IsTokenBlacklisted decides "blacklisted" (a cache hit, or a document found
\* by FindOne) only before the latest expiresAt any revocation of the jti was
\* stored with: once that has passed, neither path answers true.
C5_NoTrueAfterExpiry ==
    (IsRet /\ ev.res = "true" /\ ev.io = 0) \/ ev.op = "FindOne"
        => now < held[ev.jti]

C5_Witness ==
    /\ IsRet /\ ev.res = "false"
    /\ acked[ev.jti] # NoEntry /\ ~ (now < held[ev.jti])

\* C6: a fallback query the store answers returns false only when the store has
\* no live document of the jti; when it finds one, IsTokenBlacklisted returns
\* true and leaves (jti, its expires_at) in the cache, and the call that
\* immediately follows, before that expiry, returns true without a query.
C6_ReadThrough ==
    /\ IsRet /\ ev.io = 1 /\ ev.res = "false" /\ ~ ev.dberr
          => FindMatches(ev.jti) = {}
    /\ IsRet /\ ev.io = 1 /\ ev.res = "true" => cache[ev.jti] = ev.exp
    /\ IsRet /\ ev.after = "fill" => ev.res = "true" /\ ev.io = 0

C6_Witness == IsRet /\ ev.after = "fill" /\ ev.res = "true" /\ ev.io = 0

C8_FallbackFailsOpen ==
    /\ [](IsRet /\ ev.dberr => ev.res = "false")
    /\ [][ev'.op = "IsTokenBlacklisted" /\ ev'.dberr => cache' = cache]_vars

C8_Witness ==
    /\ IsRet /\ ev.dberr /\ ev.res = "false"
    /\ FindMatches(ev.jti) # {} /\ cache[ev.jti] = NoEntry

\* C9 (as claimed): a BlacklistToken whose expiresAt is already in the past,
\* the store answering, returns nil.
C9_PastExpiryAlwaysNil ==
    BtRet /\ ev.exp < now /\ ~ ev.dberr => ev.res = "nil"

\* C9 (amended): with the store answering, a BlacklistToken whose expiresAt is
\* already in the past returns an error only when the collection still holds a
\* document with that jti under the jti_unique index; otherwise it returns nil,
\* and the IsTokenBlacklisted that immediately follows returns false.
C9_PastExpiry ==
    /\ BtRet /\ ev.exp < now /\ ~ ev.dberr /\ ev.res = "err" => Duplicate(ev.jti)
    /\ IsRet /\ ev.after = "ackpast" => ev.res = "false"

C9_Witness == IsRet /\ ev.after = "ackpast" /\ ev.res = "false" /\ ev.io = 0

\* C10: after a run of CleanupExpiredTokens the cache holds no entry whose
\* expiresAt is in the past, and a second run immediately after the first
\* removes nothing.
C10_SweepIdempotent ==
    ev.op = "CleanupExpiredTokens" =>
        /\ \A k \in Jtis : cache[k] # NoEntry => ~ (cache[k] < now)
        /\ ev.after \in {"sweep", "sweep0"} => ev.n = 0

C10_Witness ==
    /\ ev.op = "CleanupExpiredTokens" /\ ev.after = "sweep" /\ ev.n = 0
    /\ \E k \in Jtis : cache[k] # NoEntry

\* --------------------------------------------------- the protected routes
\* protected.Use(jwt.JWTMiddleware(blacklistService)): each request passes
\* JWTMiddleware, which calls IsTokenBlacklisted, and then reaches its handler.
\* BlacklistToken is exported but no handler calls it; here goroutines that
\* serve no request call it.
TokenJtis == Jtis \cup {"none"}

\* No token cookie (k = "none"), or jwt.Parse fails or the token is not valid
\* (k = "bad"): ErrInvalidToken, c.Abort().
JWTMiddlewareAbort(t, k, svc) ==
    /\ req[t].st = "idle" /\ pc[t] = "idle"
    /\ k \in {"none", "bad"}
    /\ req' = [req EXCEPT ![t] = Request("abort", k, "none", svc, FALSE)]
    /\ ev' = NoEv
    /\ UNCHANGED <<now, jtiUnique, store, cache, pc, jti, expiresAt, ldpc,
                   ldbuf, calls, remotes, seeded, held, acked, must>>

\* Mutant: a verified token without a jti claim is rejected.
JWTMiddlewareRequiresJti(t, j, svc) ==
    /\ req[t].st = "idle" /\ pc[t] = "idle"
    /\ ~ svc \/ j = "none"
    /\ req' = [req EXCEPT ![t] =
                  Request(IF j = "none" THEN "abort" ELSE "next", "ok", j, svc, FALSE)]
    /\ ev' = NoEv
    /\ UNCHANGED <<now, jtiUnique, store, cache, pc, jti, expiresAt, ldpc,
                   ldbuf, calls, remotes, seeded, held, acked, must>>

\* A verified token, and blacklistService is nil or the token has no string
\* jti claim: no blacklist check, c.Next().
JWTMiddlewareNext(t, j, svc) ==
    /\ req[t].st = "idle" /\ pc[t] = "idle"
    /\ ~ svc \/ j = "none"
    /\ req' = [req EXCEPT ![t] = Request("next", "ok", j, svc, FALSE)]
    /\ ev' = NoEv
    /\ UNCHANGED <<now, jtiUnique, store, cache, pc, jti, expiresAt, ldpc,
                   ldbuf, calls, remotes, seeded, held, acked, must>>

\* A verified token with a string jti claim, blacklistService attached:
\* blacklistService.IsTokenBlacklisted(jti) is called.
JWTMiddlewareCheck(t, j) ==
    /\ req[t].st = "idle"
    /\ IsTokenBlacklistedRead(t, j)
    /\ req' = [req EXCEPT ![t] = Request("check", "ok", j, TRUE, TRUE)]

\* IsTokenBlacklisted goes on.
JWTMiddlewareInCheck(t) ==
    /\ req[t].st = "check"
    /\ IsTokenBlacklistedStale(t) \/ IsTokenBlacklistedFind(t)
    /\ UNCHANGED req

\* IsTokenBlacklisted returned true: ErrInvalidToken, c.Abort().
JWTMiddlewareBlacklisted(t) ==
    /\ req[t].st = "check"
    /\ IsTokenBlacklistedHit(t) \/ IsTokenBlacklistedFill(t)
    /\ req' = [req EXCEPT ![t].st = "abort"]

\* IsTokenBlacklisted returned false: the claims go to the context, c.Next().
JWTMiddlewareNotBlacklisted(t) ==
    /\ req[t].st = "check"
    /\ \/ IsTokenBlacklistedDelete(t)
       \/ \E d \in BOOLEAN : IsTokenBlacklistedFindFail(t, d)
    /\ req' = [req EXCEPT ![t].st = "next"]

\* UserHandler.Logout behind the middleware: the cookie is cleared and 200
\* LOGOUT_SUCCESSFUL is answered.
Logout(t) ==
    /\ req[t].st = "next"
    /\ req' = [req EXCEPT ![t] = NoRequest]
    /\ ev' = Event("Logout", t, req[t].tjti, NoEntry, "200", 0, FALSE, NoEntry,
                   0, "none")
    /\ UNCHANGED <<now, jtiUnique, store, cache, pc, jti, expiresAt, ldpc,
                   ldbuf, calls, remotes, seeded, held, acked, must>>

\* The request ends, aborted or served by another handler.
Respond(t) ==
    /\ req[t].st \in {"abort", "next"}
    /\ req' = [req EXCEPT ![t] = NoRequest]
    /\ ev' = NoEv
    /\ UNCHANGED <<now, jtiUnique, store, cache, pc, jti, expiresAt, ldpc,
                   ldbuf, calls, remotes, seeded, held, acked, must>>

NextGate ==
    \/ \E t \in Tasks, k \in {"none", "bad"}, svc \in BOOLEAN :
          JWTMiddlewareAbort(t, k, svc) /\ Atomic
    \/ \E t \in Tasks, j \in TokenJtis, svc \in BOOLEAN :
          JWTMiddlewareNext(t, j, svc) /\ Atomic
    \/ \E t \in Tasks, j \in Jtis : JWTMiddlewareCheck(t, j) /\ Atomic
    \/ \E t \in Tasks : JWTMiddlewareInCheck(t) /\ Atomic
    \/ \E t \in Tasks : JWTMiddlewareBlacklisted(t) /\ Atomic
    \/ \E t \in Tasks : JWTMiddlewareNotBlacklisted(t) /\ Atomic
    \/ \E t \in Tasks : Logout(t) /\ Atomic
    \/ \E t \in Tasks : Respond(t) /\ Atomic
    \/ \E t \in Tasks, j \in Jtis : \E e \in Exps(j) :
          req[t].st = "idle" /\ BlacklistTokenInsert(t, j, e)
             /\ Direct /\ Atomic
    \/ \E t \in Tasks, j \in Jtis, d \in BOOLEAN : \E e \in Exps(j) :
          req[t].st = "idle" /\ BlacklistTokenInsertFail(t, j, e, d)
             /\ Direct /\ Atomic
    \/ \E t \in Tasks : BlacklistTokenCache(t) /\ Direct /\ Atomic
    \/ CleanupExpiredTokens /\ Direct /\ Atomic
    \/ Tick /\ Direct /\ Atomic
    \/ TtlPurge /\ Direct /\ Atomic

SpecGate == Init /\ [][NextGate]_vars

\* ----------------------------------------------- BlacklistAllUserTokens
Users == {"a", "b"}

\* time.Now().Unix()
Unix(t) == t \div TicksPerSecond

\* fmt.Sprintf("user_%s_%d", userEmail, time.Now().Unix())
BulkJti(u, sec) ==
    IF u = "a" THEN <<"user_a_0", "user_a_1", "user_a_2", "user_a_3">>[sec + 1]
               ELSE <<"user_b_0", "user_b_1", "user_b_2", "user_b_3">>[sec + 1]

\* Mutant: the bulk revocation also empties the cache.
BlacklistAllUserTokensFlush(u, e) ==
    /\ ~ Duplicate(BulkJti(u, Unix(now)))
    /\ store' = store \cup {Doc(BulkJti(u, Unix(now)), e)}
    /\ cache' = [k \in Jtis |-> NoEntry]
    /\ ev' = Event("BlacklistAllUserTokens", "t1", BulkJti(u, Unix(now)), e,
                   "nil", 0, FALSE, NoEntry, 0, "none")
    /\ UNCHANGED <<now, jtiUnique, pc, jti, expiresAt, ldpc, ldbuf,
                   calls, remotes, seeded, held, acked, must, req>>

\* InsertOne of the synthetic document succeeded: nil.  The cache is not
\* written.
BlacklistAllUserTokens(u, e) ==
    /\ ~ Duplicate(BulkJti(u, Unix(now)))
    /\ store' = store \cup {Doc(BulkJti(u, Unix(now)), e)}
    /\ ev' = Event("BlacklistAllUserTokens", "t1", BulkJti(u, Unix(now)), e,
                   "nil", 0, FALSE, NoEntry, 0, "none")
    /\ UNCHANGED <<now, jtiUnique, cache, pc, jti, expiresAt, ldpc, ldbuf,
                   calls, remotes, seeded, held, acked, must, req>>

\* InsertOne failed, the store unreachable or timing out (dberr) or the id a
\* duplicate: the error is returned.
BlacklistAllUserTokensFail(u, e, dberr) ==
    /\ dberr \/ Duplicate(BulkJti(u, Unix(now)))
    /\ ev' = Event("BlacklistAllUserTokens", "t1", BulkJti(u, Unix(now)), e,
                   "err", 0, dberr, NoEntry, 0, "none")
    /\ UNCHANGED <<now, jtiUnique, store, cache, pc, jti, expiresAt, ldpc,
                   ldbuf, calls, remotes, seeded, held, acked, must, req>>

\* The expiresAt arguments tried: the last two times.
BulkExps == {e \in Times : e >= MaxTime - 1}

NextBulk ==
    \/ \E u \in Users, e \in BulkExps : BlacklistAllUserTokens(u, e) /\ Atomic
    \/ \E u \in Users, e \in BulkExps, d \in BOOLEAN :
          BlacklistAllUserTokensFail(u, e, d) /\ Atomic
    \/ \E t \in Tasks :
          BlacklistTokenInsert(t, "j2", MaxTime) /\ Direct /\ Atomic
    \/ \E t \in Tasks : BlacklistTokenCache(t) /\ Direct /\ Atomic
    \/ \E t \in Tasks, j \in Jtis :
          IsTokenBlacklistedRead(t, j) /\ Direct /\ Atomic
    \/ \E t \in Tasks : IsTokenBlacklistedHit(t) /\ Direct /\ Atomic
    \/ \E t \in Tasks : IsTokenBlacklistedStale(t) /\ Direct /\ Atomic
    \/ \E t \in Tasks : IsTokenBlacklistedDelete(t) /\ Direct /\ Atomic
    \/ \E t \in Tasks : IsTokenBlacklistedFind(t) /\ Direct /\ Atomic
    \/ \E t \in Tasks, d \in BOOLEAN :
          IsTokenBlacklistedFindFail(t, d) /\ Direct /\ Atomic
    \/ \E t \in Tasks : IsTokenBlacklistedFill(t) /\ Direct /\ Atomic
    \/ CleanupExpiredTokens /\ Direct /\ Atomic
    \/ Tick /\ Direct /\ Atomic
    \/ TtlPurge /\ Direct /\ Atomic

SpecBulk == Init /\ [][NextBulk]_vars

\* C11: with the goroutines working on pairwise disjoint jtis, no cache write
\* is lost: once every call has returned, the cache holds entries for
\* blacklisted jtis only and, for each jti blacklisted with an expiresAt still
\* in the future, an entry with that expiresAt (to the millisecond the
\* collection keeps, when loadCacheFromDB wrote it again); and an
\* IsTokenBlacklisted that began after the BlacklistToken of its jti returned
\* nil returns true before that expiresAt, from the cache.
C11_NoLostWrite ==
    /\ (\A t \in Tasks : pc[t] = "idle") =>
          \A k \in Jtis :
             /\ cache[k] # NoEntry => acked[k] # NoEntry
             /\ acked[k] # NoEntry /\ now < StoreTime(acked[k]) =>
                   cache[k] \in {acked[k], StoreTime(acked[k])}
    /\ IsRet /\ ev.must # NoEntry /\ now < StoreTime(ev.must) =>
          ev.res = "true" /\ ev.io = 0

C11_Witness ==
    /\ IsRet /\ now < ev.must /\ ev.res = "true"
    /\ \A t \in Tasks : pc[t] = "idle"
    /\ \A k \in Jtis : acked[k] # NoEntry /\ now < acked[k] /\ cache[k] = acked[k]

\* C12 (as claimed): a BlacklistToken for a jti the collection already holds a
\* document of, the store answering, returns nil and leaves its expiresAt in
\* the cache.
C12_DuplicateNoError ==
    BtRet /\ ~ ev.dberr /\ (\E r \in store : r.jti = ev.jti)
        => ev.res = "nil" /\ cache[ev.jti] = ev.exp

\* C12 (amended): under the jti_unique index a BlacklistToken for a jti the
\* collection still holds a document of returns the duplicate-key error of
\* InsertOne, so the collection never holds two documents of one jti; with
\* the store answering that is the only error.  A BlacklistToken that returns
\* nil (the index missing, or the earlier document purged) leaves its own
\* expiresAt in the cache, whatever entry was there.
C12_DuplicateRevoke ==
    /\ jtiUnique => \A r, q \in store : r.jti = q.jti => r = q
    /\ BtRet /\ ev.res = "err" /\ ~ ev.dberr => Duplicate(ev.jti)
    /\ BtRet /\ ev.res = "nil" => cache[ev.jti] = ev.exp

C12_Witness ==
    /\ BtRet /\ ev.res = "err" /\ ~ ev.dberr
    /\ cache[ev.jti] # NoEntry /\ cache[ev.jti] # ev.exp /\ now < ev.exp

\* The other half of C12: a second BlacklistToken of a jti returned nil and
\* replaced a later expiresAt in the cache by its own.
C12_Overwritten ==
    BtRet /\ ev.res = "nil" /\ acked[ev.jti] > ev.exp /\ cache[ev.jti] = ev.exp

C15_LogoutRevokes ==
    IsRet /\ ev.after = "logout" => ev.res = "true" /\ req[ev.t].st = "abort"

\* The IsTokenBlacklisted calls in progress are those of JWTMiddleware.
InCheck(t) == pc[t] \in {"itb_check", "itb_delete", "itb_find", "itb_fill"}

\* The middleware has decided the request of goroutine t.
Decided(t) == req[t].st \in {"abort", "next"}

\* C16: JWTMiddleware calls IsTokenBlacklisted only for a verified token, with
\* the token's string jti claim and a BlacklistService attached; the request
\* it was called for is aborted exactly when it returns true; and a request
\* decided without that call (no BlacklistService, or no string jti claim) is
\* aborted exactly when the token is missing or not valid.
C16_GateChecksVerified ==
    /\ \A t \in Tasks :
          /\ InCheck(t) => req[t].st = "check" /\ req[t].tjti = jti[t]
          /\ req[t].checked <=>
                req[t].tok = "ok" /\ req[t].svc /\ req[t].tjti \in Jtis
          /\ Decided(t) /\ ~ req[t].checked =>
                (req[t].st = "abort" <=> req[t].tok # "ok")
    /\ IsRet =>
          /\ req[ev.t].checked /\ req[ev.t].tjti = ev.jti
          /\ req[ev.t].st = "abort" <=> ev.res = "true"
          /\ req[ev.t].st = "next" <=> ev.res = "false"

C16_Witness ==
    /\ IsRet /\ ev.res = "true" /\ req[ev.t].st = "abort"
    /\ \E t \in Tasks :
          Decided(t) /\ req[t].tok = "ok" /\ req[t].svc /\ req[t].tjti = "none"

\* C17 (as claimed): a BlacklistAllUserTokens made while the store answers
\* returns nil, and the document it stored is the only one in the collection
\* with its jti.
C17_BulkIdUnique ==
    ev.op = "BlacklistAllUserTokens" /\ ~ ev.dberr =>
        /\ ev.res = "nil"
        /\ \A r \in store : r.jti = ev.jti => r = Doc(ev.jti, ev.exp)

\* IsTokenBlacklisted returned false from an expired cache entry.
StaleRet == IsRet /\ ev.res = "false" /\ ev.exp # NoEntry

\* C18 (as claimed): an IsTokenBlacklisted that finds an expired cache entry
\* deletes it and answers as the store lookup does: false only when the
\* collection holds no live document of the jti.
C18_StaleFallsThrough == StaleRet => FindMatches(ev.jti) = {}

\* C19 (as claimed): with the store answering, IsTokenBlacklisted decides as a
\* lookup in the collection alone would: "blacklisted" (a cache hit, or a
\* document found) only while the collection holds a live document of the
\* jti, and false only while it holds none.
C19_SameAsStoreOnly ==
    /\ (IsRet /\ ev.res = "true" /\ ev.io = 0) \/ ev.op = "FindOne"
          => \E r \in store : r.jti = ev.jti /\ now < r.exp
    /\ IsRet /\ ev.res = "false" /\ ~ ev.dberr
          => ~ \E r \in store : r.jti = ev.jti /\ now < r.exp

\* C20 (as claimed): the delete of IsTokenBlacklisted removes no live entry:
\* when a BlacklistToken of the jti wrote an entry with a future expiresAt
\* after the read that saw the expired one (it returned nil while the call
\* was running), the jti still has its entry when IsTokenBlacklisted returns.
C20_EvictionKeepsLive ==
    StaleRet /\ ev.must < acked[ev.jti] /\ now < acked[ev.jti]
        => cache[ev.jti] # NoEntry

\* C21 (as claimed): loadCacheFromDB never replaces a newer cache entry by
\* stale data: when a BlacklistToken(jti, e2) stored its document after the
\* Find of loadCacheFromDB (the cursor does not hold it, though e2 was and is
\* in the future) and wrote (jti, e2) to the cache before the cursor loop, the
\* cache still holds (jti, e2) when the loop has ended.
C21_LoadKeepsNewer ==
    [][ldpc = "fill" /\ ldpc' = "done" =>
          \A k \in Jtis :
             /\ acked[k] # NoEntry /\ cache[k] = acked[k]
             /\ StoreTime(now) < StoreTime(acked[k])
             /\ Doc(k, acked[k]) \notin ldbuf
             => cache'[k] = acked[k]]_vars

\* C24: a run of CleanupExpiredTokens changes expired cache entries only: it
\* removes entries, none of them with an expiresAt in the future, every other
\* entry keeps its expiresAt, and the collection is not touched.
C24_SweepFrame ==
    [][ev'.op = "CleanupExpiredTokens" =>
          /\ store' = store
          /\ \A k \in Jtis :
                /\ cache[k] # NoEntry /\ now < cache[k] => cache'[k] = cache[k]
                /\ cache'[k] # cache[k] => cache'[k] = NoEntry]_vars

\* A sweep removed an entry and left a live one, the collection holding
\* documents.
C24_Witness ==
    /\ ev.op = "CleanupExpiredTokens" /\ ev.n > 0
    /\ \E k \in Jtis : cache[k] # NoEntry /\ now < cache[k]
    /\ store # {}

\* The documents the expires_at_ttl index may not remove yet.
Unpurged == {r \in store : ~ (r.exp < now)}

\* C25 (as claimed): the answers do not depend on whether the TTL index has
\* already removed the documents whose expires_at has passed: with the store
\* answering, a BlacklistToken returns an error only over a document of its
\* jti that the index could not have removed, and the document a FindOne
\* decodes is one the index could not have removed.
C25_PurgeInvisible ==
    /\ BtRet /\ ev.res = "err" /\ ~ ev.dberr
          => \E r \in Unpurged : r.jti = ev.jti
    /\ ev.op = "FindOne" => Doc(ev.jti, ev.exp) \in Unpurged

\* The step is one of IsTokenBlacklisted, loadCacheFromDB or
\* CleanupExpiredTokens.
ReadOnlyStep ==
    \/ ev'.op \in {"begin", "stale", "FindOne", "IsTokenBlacklisted",
                   "loadCacheFromDB", "CleanupExpiredTokens"}
    \/ ldpc' # ldpc

\* C26: the collection changes by inserts and by the TTL index only:
\* IsTokenBlacklisted, loadCacheFromDB and CleanupExpiredTokens leave it as it
\* is, a step that changes it either adds one document and keeps the others
\* or is the TTL index removing one document whose expires_at has passed, and
\* no step replaces a document by another.
C26_InsertOnly ==
    [][/\ ReadOnlyStep => store' = store
       /\ store' # store =>
             \/ /\ store \subseteq store'
                /\ Cardinality(store' \ store) = 1
             \/ /\ \E r \in store : r.exp < now /\ store' = store \ {r}
                /\ pc' = pc /\ cache' = cache /\ ev' = NoEv]_vars

\* loadCacheFromDB has run, IsTokenBlacklisted dropped an expired cache entry,
\* and the collection still holds the document of that jti.
C26_Witness ==
    /\ StaleRet /\ ldpc = "done"
    /\ \E r \in store : r.jti = ev.jti /\ r.exp = ev.exp

C29_SameBoundary ==
    ev.op = "CleanupExpiredTokens" =>
        \A k \in Jtis : cache[k] # NoEntry => ~ IsExpired(cache[k])

\* ------------------------------------------------------ the cache mutex
\* The calls of bs.mutex as steps of their own: a goroutine that has called
\* Lock or RLock waits until the mutex lets it in, and the map access and the
\* unlock that follow are one step.
Goroutines == Tasks \cup {"load", "cleanup"}

\* The collection at construction: a document of j1 that expires during the
\* run.
Seeds == {{Doc("j1", 1)}}

\* The expiresAt arguments tried: the end of the run.
LockExps == {MaxTime}

InitLock ==
    /\ now = 0
    /\ jtiUnique = TRUE
    /\ store \in Seeds
    /\ seeded = {r.jti : r \in store}
    /\ held = [k \in Jtis |-> IF \E r \in store : r.jti = k THEN 1 ELSE NoEntry]
    /\ cache = [k \in Jtis |-> NoEntry]
    /\ pc = [t \in Tasks |-> "idle"]
    /\ jti = [t \in Tasks |-> "j1"]
    /\ expiresAt = [t \in Tasks |-> NoEntry]
    /\ must = [t \in Tasks |-> NoEntry]
    /\ acked = [k \in Jtis |-> NoEntry]
    /\ ldpc = "find"
    /\ ldbuf = {}
    /\ calls = 0
    /\ remotes = 0
    /\ ev = NoEv
    /\ req = [t \in Tasks |-> NoRequest]
    /\ mutex = Unlocked
    /\ inside = {}
    /\ worker = "idle"

\* The next statement of goroutine g reads the map: bs.cache[jti] at line 114.
Reads(g) == g \in Tasks /\ pc[g] = "itb_read"

\* The next statement of goroutine g writes the map: lines 100, 124, 150, the
\* cursor loop (line 222) and the range loop of the sweep (line 192).
Writes(g) ==
    IF g \in Tasks THEN pc[g] \in {"bt_cache", "itb_delete", "itb_fill"}
    ELSE IF g = "load" THEN ldpc = "fill"
    ELSE worker = "scan"

\* Goroutine g has returned from its call, or not begun it.
Returned(g) ==
    IF g \in Tasks THEN pc[g] = "idle"
    ELSE IF g = "load" THEN ldpc \in {"done", "failed"}
    ELSE worker = "idle"

\* Mutant: the writers take the mutex as readers do.
LockAsReader(g) ==
    /\ Writes(g) /\ g \notin inside
    /\ mutex.w = "none"
    /\ mutex' = [mutex EXCEPT !.r = @ \cup {g}]
    /\ inside' = inside \cup {g}
    /\ ev' = NoEv
    /\ UNCHANGED <<now, jtiUnique, store, cache, pc, jti, expiresAt, ldpc,
                   ldbuf, calls, remotes, seeded, held, acked, must, req,
                   worker>>

\* bs.mutex.Lock() returns: nobody holds the mutex.
Lock(g) ==
    /\ Writes(g) /\ g \notin inside
    /\ mutex = Unlocked
    /\ mutex' = [mutex EXCEPT !.w = g]
    /\ inside' = inside \cup {g}
    /\ ev' = NoEv
    /\ UNCHANGED <<now, jtiUnique, store, cache, pc, jti, expiresAt, ldpc,
                   ldbuf, calls, remotes, seeded, held, acked, must, req,
                   worker>>

\* bs.mutex.RLock() returns: nobody holds the mutex for writing.
RLock(g) ==
    /\ Reads(g) /\ g \notin inside
    /\ mutex.w = "none"
    /\ mutex' = [mutex EXCEPT !.r = @ \cup {g}]
    /\ inside' = inside \cup {g}
    /\ ev' = NoEv
    /\ UNCHANGED <<now, jtiUnique, store, cache, pc, jti, expiresAt, ldpc,
                   ldbuf, calls, remotes, seeded, held, acked, must, req,
                   worker>>

\* bs.mutex.Unlock(), called or deferred.
Unlock(g) ==
    /\ g \in inside
    /\ mutex' = [mutex EXCEPT !.w = "none"]
    /\ inside' = inside \ {g}

\* bs.mutex.RUnlock()
RUnlock(g) ==
    /\ g \in inside
    /\ mutex' = [mutex EXCEPT !.r = @ \ {g}]
    /\ inside' = inside \ {g}

\* IsTokenBlacklisted(j) is called and reaches bs.mutex.RLock().
IsTokenBlacklistedCall(t, j) ==
    /\ Ready(t)
    /\ Begin(t, "itb_read", j, NoEntry, acked[j])
    /\ ev' = Event("begin", t, j, NoEntry, "none", 0, FALSE, NoEntry, 0, Follows(j))
    /\ UNCHANGED <<now, jtiUnique, store, cache, ldpc, ldbuf, remotes,
                   seeded, held, acked>>

\* expiresAt, exists := bs.cache[jti], then bs.mutex.RUnlock().
IsTokenBlacklistedLookup(t) ==
    /\ pc[t] = "itb_read"
    /\ pc' = [pc EXCEPT ![t] =
                 IF cache[jti[t]] # NoEntry THEN "itb_check" ELSE "itb_find"]
    /\ expiresAt' = [expiresAt EXCEPT ![t] = cache[jti[t]]]
    /\ ev' = Event("begin", t, jti[t], NoEntry, "none", 0, FALSE, NoEntry, 0,
                   Chain(t))
    /\ UNCHANGED <<now, jtiUnique, store, cache, jti, ldpc, ldbuf, calls,
                   remotes, seeded, held, acked, must>>

\* The ticker of StartCleanupWorker fires: CleanupExpiredTokens is called and
\* reaches bs.mutex.Lock().
TickerFire ==
    /\ worker = "idle"
    /\ worker' = "scan"
    /\ ev' = NoEv
    /\ UNCHANGED <<now, jtiUnique, store, cache, pc, jti, expiresAt, ldpc,
                   ldbuf, calls, remotes, seeded, held, acked, must, req,
                   mutex, inside>>

\* cursor.Next fetched a document, Decode succeeded and
\* bs.cache[entry.JTI] = entry.ExpiresAt, the write lock held all along.
LoadNext ==
    /\ ldpc = "fill"
    /\ \E r \in ldbuf :
          /\ cache' = [cache EXCEPT ![r.jti] = r.exp]
          /\ ldbuf' = ldbuf \ {r}
    /\ ev' = NoEv
    /\ UNCHANGED <<now, jtiUnique, store, pc, jti, expiresAt, ldpc, calls,
                   remotes, seeded, held, acked, must, req, mutex, inside,
                   worker>>

\* Mutant: the loop is left without the unlock.
LoadEndKeepsLock ==
    /\ ldpc = "fill"
    /\ ldpc' = "done"
    /\ ev' = Event("loadCacheFromDB", "t1", "j1", NoEntry,
                   IF ldbuf = {} THEN "all" ELSE "part", 0, ldbuf # {},
                   NoEntry, 0, "none")
    /\ UNCHANGED <<now, jtiUnique, store, cache, pc, jti, expiresAt, ldbuf,
                   calls, remotes, seeded, held, acked, must, req, worker,
                   mutex, inside>>

\* cursor.Next returned false, the cursor exhausted or the store failing:
\* the count is logged and the deferred bs.mutex.Unlock() runs.
LoadEnd ==
    /\ ldpc = "fill"
    /\ ldpc' = "done"
    /\ ev' = Event("loadCacheFromDB", "t1", "j1", NoEntry,
                   IF ldbuf = {} THEN "all" ELSE "part", 0, ldbuf # {},
                   NoEntry, 0, "none")
    /\ Unlock("load")
    /\ UNCHANGED <<now, jtiUnique, store, cache, pc, jti, expiresAt, ldbuf,
                   calls, remotes, seeded, held, acked, must, req, worker>>

\* A step of a call in progress on goroutine t, the mutex its own step.
Proceed(t) ==
    \/ BlacklistTokenCache(t) /\ Unlock(t) /\ Direct /\ UNCHANGED worker
    \/ IsTokenBlacklistedLookup(t) /\ RUnlock(t) /\ Direct /\ UNCHANGED worker
    \/ IsTokenBlacklistedHit(t) /\ Direct /\ Atomic
    \/ IsTokenBlacklistedStale(t) /\ Direct /\ Atomic
    \/ IsTokenBlacklistedDelete(t) /\ Unlock(t) /\ Direct /\ UNCHANGED worker
    \/ IsTokenBlacklistedFind(t) /\ Direct /\ Atomic
    \/ \E d \in BOOLEAN : IsTokenBlacklistedFindFail(t, d) /\ Direct /\ Atomic
    \/ IsTokenBlacklistedFill(t) /\ Unlock(t) /\ Direct /\ UNCHANGED worker

\* A step of the goroutine of loadCacheFromDB.
Load ==
    \/ LoadFind /\ Direct /\ Atomic
    \/ LoadFindFail /\ Direct /\ Atomic
    \/ "load" \in inside /\ LoadNext
    \/ "load" \in inside /\ LoadEnd

\* Mutant: a timer instead of a ticker, the goroutine ends after one sweep.
WorkerOneShot ==
    \/ TickerFire
    \/ CleanupExpiredTokens /\ Unlock("cleanup") /\ worker' = "stopped" /\ Direct

\* A step of the goroutine of StartCleanupWorker.
Worker ==
    \/ TickerFire
    \/ CleanupExpiredTokens /\ Unlock("cleanup") /\ worker' = "idle" /\ Direct

NextLock ==
    \/ \E t \in Tasks, j \in Jtis, e \in LockExps :
          BlacklistTokenInsert(t, j, e) /\ Direct /\ Atomic
    \/ \E t \in Tasks, j \in Jtis, e \in LockExps, d \in BOOLEAN :
          BlacklistTokenInsertFail(t, j, e, d) /\ Direct /\ Atomic
    \/ \E t \in Tasks, j \in Jtis :
          IsTokenBlacklistedCall(t, j) /\ Direct /\ Atomic
    \/ \E g \in Goroutines : Lock(g)
    \/ \E t \in Tasks : RLock(t)
    \/ \E t \in Tasks : Proceed(t)
    \/ Load
    \/ Worker
    \/ Tick /\ Direct /\ Atomic

SpecLock == InitLock /\ [][NextLock]_vars

\* C22 (as claimed): an IsTokenBlacklisted(jti) whose jti has a cache entry
\* with a future expiresAt never waits for store I/O: while it waits for the
\* read lock, no goroutine holds the mutex with a store operation under way
\* (here cursor.Next of loadCacheFromDB with documents still to fetch).
C22_HitNeverWaitsForIO ==
    \A t \in Tasks :
        /\ Reads(t) /\ t \notin inside
        /\ cache[jti[t]] # NoEntry /\ now < cache[jti[t]]
        => ~ (mutex.w = "load" /\ ldpc = "fill" /\ ldbuf # {})

\* C23: every access of the map happens under the mutex in the matching mode:
\* a goroutine about to read it holds the mutex for reading, a goroutine about
\* to write it holds it for writing, a writer is never inside together with a
\* reader or another writer, and several readers may be inside together.
C23_LockDiscipline ==
    /\ \A g \in inside :
          /\ Reads(g) \/ Writes(g)
          /\ Reads(g) => g \in mutex.r /\ mutex.w = "none"
          /\ Writes(g) => mutex.w = g /\ mutex.r = {} /\ inside = {g}
    /\ mutex.r \subseteq inside
    /\ mutex.w # "none" => mutex.w \in inside

\* Both request goroutines read the map at once while loadCacheFromDB waits
\* for the write lock.
C23_Witness ==
    /\ inside = Tasks /\ mutex.r = Tasks
    /\ Writes("load") /\ "load" \notin inside

\* The scheduler runs every goroutine that can take a step, each store
\* operation returns or times out, the ticker keeps firing, and a goroutine
\* waiting for the mutex is let in after finitely many releases (sync.Mutex
\* hands the lock to a waiter that has been starving).
Fairness ==
    /\ \A g \in Goroutines : SF_vars(Lock(g))
    /\ \A t \in Tasks : SF_vars(RLock(t))
    /\ \A t \in Tasks : WF_vars(Proceed(t))
    /\ WF_vars(Load)
    /\ WF_vars(Worker)

\* As InitLock, with FairCalls calls to make.
InitLockFair ==
    /\ now = 0
    /\ jtiUnique = TRUE
    /\ store \in Seeds
    /\ seeded = {r.jti : r \in store}
    /\ held = [k \in Jtis |-> IF \E r \in store : r.jti = k THEN 1 ELSE NoEntry]
    /\ cache = [k \in Jtis |-> NoEntry]
    /\ pc = [t \in Tasks |-> "idle"]
    /\ jti = [t \in Tasks |-> "j1"]
    /\ expiresAt = [t \in Tasks |-> NoEntry]
    /\ must = [t \in Tasks |-> NoEntry]
    /\ acked = [k \in Jtis |-> NoEntry]
    /\ ldpc = "find"
    /\ ldbuf = {}
    /\ calls = MaxCalls - FairCalls
    /\ remotes = 0
    /\ ev = NoEv
    /\ req = [t \in Tasks |-> NoRequest]
    /\ mutex = Unlocked
    /\ inside = {}
    /\ worker = "idle"

SpecLockFair == InitLockFair /\ [][NextLock]_vars /\ Fairness

\* C28: with the cleanup worker started and its ticker firing again and again,
\* every cache entry whose expiresAt has passed is eventually removed.
C28_SweepEventually ==
    \A k \in Jtis, e \in Times : (cache[k] = e /\ e < now) ~> (cache[k] # e)

C28_Witness ==
    /\ ev.op = "CleanupExpiredTokens" /\ ev.n > 0
    /\ worker = "idle" /\ mutex = Unlocked

\* C30: no reachable state is a deadlock: a goroutine that waits for the
\* mutex does not hold it, a goroutine that holds it can take its next step
\* without waiting, a goroutine that has returned holds nothing, on the error
\* returns too, and every call of BlacklistToken, IsTokenBlacklisted,
\* loadCacheFromDB and CleanupExpiredTokens returns.
C30_NoDeadlock ==
    /\ [](\A g \in Goroutines :
            /\ (Reads(g) \/ Writes(g)) /\ g \notin inside
                  => mutex.w # g /\ g \notin mutex.r
            /\ Returned(g) => mutex.w # g /\ g \notin mutex.r /\ g \notin inside)
    /\ [](/\ \A t \in Tasks : t \in inside => ENABLED Proceed(t)
          /\ "load" \in inside => ENABLED Load
          /\ "cleanup" \in inside => ENABLED Worker)
    /\ \A t \in Tasks : (pc[t] # "idle") ~> (pc[t] = "idle")
    /\ <>(ldpc \in {"done", "failed"})
    /\ (worker = "scan") ~> (worker = "idle")

\* The store failed inside the cursor loop: loadCacheFromDB returned, the
\* mutex is free again, and a request goroutine that waited for it can go on.
C30_Witness ==
    /\ ev.op = "loadCacheFromDB" /\ ev.res = "part"
    /\ mutex = Unlocked
    /\ \E t \in Tasks : Writes(t) /\ t \notin inside

TypeOK ==
    /\ now \in Times
    /\ cache \in [Jtis -> Times \cup {NoEntry}]
    /\ \A r \in store :
          /\ r.jti \in Jtis \cup {BulkJti(u, Unix(t)) : u \in Users, t \in Times}
          /\ r.exp \in Times
    /\ req \in [Tasks -> [st : {"idle", "check", "abort", "next"},
                          tok : {"none", "bad", "ok"}, tjti : TokenJtis,
                          svc : BOOLEAN, checked : BOOLEAN]]
    /\ mutex \in [w : Goroutines \cup {"none"}, r : SUBSET Tasks]
    /\ inside \subseteq Goroutines
    /\ worker \in {"idle", "scan"}
====
